---- MODULE Spec2Model ----
(***************************************************************************)
(* Burst-detection pipeline of CASPEr-GRL.                                 *)
(*                                                                         *)
(*   locate_bursts.py : __main__  ->  get_windows  ->  select_and_save_bursts *)
(*   csv2npy.py / source/preprocess_data.py : fill_zero_gaps               *)
(*                                                                         *)
(* Arrays are sequences (1-based here, 0-based in the source: index i of   *)
(* the source is position i+1 of the sequence; every index stored in a     *)
(* variable - window starts and ends, burst_idx - is the source's 0-based  *)
(* value).  A spectrogram is a sequence of frequency rows, each a sequence *)
(* over time: spec[f][t].                                                  *)
(*                                                                         *)
(* The smoothed flux is carried as an integer: rolling_mean here is the    *)
(* source's rolling_mean multiplied by the positive factor WINDOW_SIZE x   *)
(* n_freq (x TIME_BIN_FACTOR when the pooling is a mean).  A sample that   *)
(* is above or below mean + std in the reals is compared exactly, see      *)
(* above_threshold; a sample exactly on mean + std is compared as the      *)
(* rounding of the doubles falls, see on_threshold.                        *)
(***************************************************************************)
EXTENDS Integers, Sequences, FiniteSets, TLC

VARIABLES
    pc,               \* position of the run
    npy_file,         \* <prefix>.npy as found: "unread", "ok", "missing", "unloadable"
    npz_file,         \* <prefix>.npz as found
    spec,             \* the spectrogram held by <prefix>.npy
    times,            \* select_and_save_bursts: meta.get("times"), in sample ticks
    times_bound,      \* whether times has been read from meta
    spec_bound,       \* whether the name spec is bound in __main__
    meta_bound,       \* whether the name meta is bound in __main__
    bin_factor,       \* cont_3sig.TIME_BIN_FACTOR of this build
    stages,           \* the pipeline stages entered so far
    figure,           \* get_windows: title of the figure plt.show() is showing
    outlier_mask,     \* get_windows: the mask apply_robust_clip returned
    flux_time,        \* get_windows: flux over binned time
    rolling_mean,     \* get_windows: smoothed flux (scaled, see above)
    mask,             \* get_windows: rolling_mean > threshold
    windows,          \* get_windows: zip(starts, ends)
    padded_windows,   \* get_windows: the returned list
    burst_idx,        \* select_and_save_bursts: windows plotted so far
    confirmed,        \* select_and_save_bursts: the decision list
    shown,            \* whether plt.show() has returned
    save_idx,         \* select_and_save_bursts: position of the save loop
    clicks,           \* per check box: calls of toggle made for it
    attempts,         \* per window: np.save calls made
    writes,           \* per window: np.save calls that succeeded
    files,            \* output directory: save_name -> stored slice
    err,              \* the exception that ended the run, "" if none
    data,             \* fill_zero_gaps: the caller's matrix (time x frequency)
    dtype,            \* fill_zero_gaps: "int" or "float" element type of data
    filled,           \* fill_zero_gaps(data)
    filled2           \* fill_zero_gaps(fill_zero_gaps(data))

runVars  == <<pc, npy_file, npz_file, spec, times, times_bound, spec_bound, meta_bound, bin_factor, stages, err>>
winVars  == <<figure, outlier_mask, flux_time, rolling_mean, mask, windows, padded_windows>>
selVars  == <<burst_idx, confirmed, clicks, shown, save_idx, attempts, writes, files>>
fillVars == <<data, dtype, filled, filled2>>
vars     == <<runVars, winVars, selVars, fillVars>>

(***************************************************************************)
(* Bounds of the model.  WINDOW_SIZE and WINDOW_PAD stand for the source's *)
(* 150*UNITS_PER_SECOND = 600 and 60*UNITS_PER_SECOND = 240 samples,       *)
(* scaled down (the pad shorter than the window, as in the source) so that *)
(* recordings both shorter and longer than the smoothing window are        *)
(* enumerated.                                                             *)
(***************************************************************************)
WINDOW_SIZE == 5
WINDOW_PAD == 1
MaxCells == 6
MaxRunCells == 5
MaxBinFactor == 2
MaxFillCells == 4

\* clicks followed on one check box
MaxClicks == 2

UNITS_PER_SECOND == 4

Vals == {-1, 1}

(***************************************************************************)
(* Helpers                                                                 *)
(***************************************************************************)
RECURSIVE SumTo(_, _)
SumTo(s, n) == IF n = 0 THEN 0 ELSE s[n] + SumTo(s, n - 1)

SeqSum(s) == SumTo(s, Len(s))

\* a function over 1..n as an evaluated tuple
Array(f) == <<>> \o f

Max2(a, b) == IF a >= b THEN a ELSE b
Min2(a, b) == IF a <= b THEN a ELSE b

\* the ascending sequence of the indices i in lo..hi with P[i]
RECURSIVE Where(_, _, _)
Where(P, lo, hi) ==
    IF lo > hi THEN <<>>
    ELSE IF P[lo] THEN <<lo>> \o Where(P, lo + 1, hi)
    ELSE Where(P, lo + 1, hi)

n_time(s) == Len(s[1])

(***************************************************************************)
(* cont_3sig (not part of the sources at hand): bin_spectrogram pools runs *)
(* of TIME_BIN_FACTOR contiguous columns (kept as the run's sum, i.e. the  *)
(* mean times the factor), apply_robust_clip returns some boolean mask of  *)
(* the binned shape - any mask.                                            *)
(***************************************************************************)
bin_spectrogram(s, F) ==
    Array([f \in 1..Len(s) |->
        Array([b \in 1..(n_time(s) \div F) |->
            SeqSum([k \in 1..F |-> s[f][(b - 1) * F + k]])])])

apply_robust_clip(binned) ==
    IF Len(binned[1]) = 0 THEN {[f \in 1..Len(binned) |-> <<>>]}
    ELSE [1..Len(binned) -> [1..Len(binned[1]) -> BOOLEAN]]

(***************************************************************************)
(* get_windows                                                             *)
(***************************************************************************)
\* lines 145-146, 153: NaN everywhere but at the outliers, then NaN -> 0.0
burst_data(binned, om) ==
    Array([f \in 1..Len(binned) |->
        Array([b \in 1..Len(binned[f]) |->
            IF om[f][b] THEN binned[f][b] ELSE 0])])

\* line 154: np.mean(burst_data, axis=0), times n_freq
flux_of(burst) ==
    Array([b \in 1..Len(burst[1]) |-> SeqSum([f \in 1..Len(burst) |-> burst[f][b]])])

\* line 155: np.ones(WINDOW_SIZE) / WINDOW_SIZE, times WINDOW_SIZE
kernel == Array([i \in 1..WINDOW_SIZE |-> 1])

\* numpy: entry k (0-based) of the full discrete convolution of a and v
convolve_full(a, v, k) ==
    SeqSum([j \in 1..Len(a) |->
        IF (k - (j - 1)) \in 0..(Len(v) - 1) THEN a[j] * v[k - (j - 1) + 1] ELSE 0])

\* numpy: np.convolve(a, v, mode='same') is the middle max(M, N) entries of the
\* full convolution, starting (min(M, N) - 1) div 2 entries in
convolve_same_len(a, v) == Max2(Len(a), Len(v))

convolve_same(a, v) ==
    Array([i \in 1..convolve_same_len(a, v) |->
        convolve_full(a, v, (i - 1) + (Min2(Len(a), Len(v)) - 1) \div 2)])

\* a threshold test that admits equality, unlike line 168
greater_or_equal(lhs, rhs) == lhs >= rhs

\* lines 164-168: r[i] > np.mean(r) + 1 * np.std(r), with n = len(r),
\* S = sum(r), Q = sum(r^2):  n*x - S > sqrt(n*Q - S^2), both sides squared
strictly_greater(lhs, rhs) == lhs > rhs

above_threshold(x, n, S, Q) ==
    /\ n * x - S >= 0
    /\ strictly_greater((n * x - S) * (n * x - S), n * Q - S * S)

\* x = mean + std in the reals with std > 0: the doubles np.mean, np.std and
\* the sum of line 166 produce are rounded, threshold falls an ulp to either
\* side of the sample and line 168 can give either answer.  With a constant
\* rolling mean c the rounded threshold is never below c.
on_threshold(x, n, S, Q) ==
    /\ n * x - S > 0
    /\ (n * x - S) * (n * x - S) = n * Q - S * S

\* lines 164-168: the masks rolling_mean > threshold can be
threshold_masks(r) ==
    LET n == Len(r)
        S == SeqSum(r)
        Q == SeqSum([i \in 1..n |-> r[i] * r[i]])
        sure == Array([i \in 1..n |-> above_threshold(r[i], n, S, Q)])
        tied == Array([i \in 1..n |-> on_threshold(r[i], n, S, Q)])
    IN  {m \in [1..n -> BOOLEAN] : \A i \in 1..n : tied[i] \/ (m[i] = sure[i])}

\* line 169: np.diff(mask.astype(int)), entry i (0-based) at position i+1
diff_mask(m) ==
    Array([i \in 1..(Len(m) - 1) |->
        (IF m[i + 1] THEN 1 ELSE 0) - (IF m[i] THEN 1 ELSE 0)])

\* the index of the last sample before the rise, one short of line 170
rising_index_at_rise(i) == i

\* line 170: np.where(diff == 1)[0] + 1, i the 0-based position in diff
rising_index(i) == i + 1

\* lines 170, 173-174
edge_starts(m) ==
    LET d == diff_mask(m)
        w == Where([i \in 1..Len(d) |-> d[i] = 1], 1, Len(d))
        s == Array([k \in 1..Len(w) |-> rising_index(w[k] - 1)])
    IN  IF m[1] THEN <<0>> \o s ELSE s

\* lines 171, 176-177
edge_ends(m) ==
    LET d == diff_mask(m)
        w == Where([i \in 1..Len(d) |-> d[i] = -1], 1, Len(d))
        e == Array([k \in 1..Len(w) |-> (w[k] - 1) + 1])
    IN  IF m[Len(m)] THEN e \o <<Len(m)>> ELSE e

\* line 179
zip(a, b) == Array([k \in 1..Min2(Len(a), Len(b)) |-> <<a[k], b[k]>>])

\* lines 182-183
pad_start(s, F) == Max2(0, s * F - WINDOW_PAD)
pad_end(e, F, T) == Min2(T, e * F + WINDOW_PAD)

\* lines 180-184
pad_windows(w, F, T) ==
    Array([k \in 1..Len(w) |-> <<pad_start(w[k][1], F), pad_end(w[k][2], F, T)>>])


\* lines 143-186, for one outcome om of apply_robust_clip
gw_flux(s, F, om) == flux_of(burst_data(bin_spectrogram(s, F), om))
gw_rolling(flux) == convolve_same(flux, kernel)
gw_windows(m) == zip(edge_starts(m), edge_ends(m))

(***************************************************************************)
(* select_and_save_bursts                                                  *)
(***************************************************************************)
\* numpy indexing a[i] of an axis of length n: negative indices wrap
index_ok(i, n) == (-n <= i) /\ (i < n)

\* lines 72, 116: spec[:, start:end], start, end >= 0
slice(s, start, end) ==
    Array([f \in 1..Len(s) |-> SubSeq(s[f], Min2(start, n_time(s)) + 1, Min2(end, n_time(s)))])

\* lines 119-121: the file name is the prefix and the start time of day at a
\* resolution of one second; times is in ticks of 1/UNITS_PER_SECOND s
save_name(t, start) == t[start + 1] \div UNITS_PER_SECOND

\* line 124: np.save(save_path, s_window) creates or replaces the file
np_save(fs, name, content) ==
    [n \in (DOMAIN fs) \cup {name} |-> IF n = name THEN content ELSE fs[n]]

\* what a file holds when np.save fails while writing it: not an array
truncated == <<>>

\* line 124 raising OSError: np.save opens the file for writing, which creates
\* or empties it, then writes; it fails at the open or during the write
np_save_failed(fs, name) == {fs, np_save(fs, name, truncated)}

n_bursts == Len(padded_windows)

Stages_get_windows ==
    {"outlier_masker", "flux_collapser", "smoother", "edge_detector", "window_builder"}

(***************************************************************************)
(* fill_zero_gaps, csv2npy.py lines 34-51 (the same text in                *)
(* source/preprocess_data.py).  data[t][i] is sample t of channel i.  A    *)
(* sample is an exact rational <<numerator, denominator>>, denominator > 0, *)
(* in lowest terms; NaN, which only a float matrix can hold, is <<1, 0>>.   *)
(***************************************************************************)
Abs(x) == IF x >= 0 THEN x ELSE -x

RECURSIVE Gcd(_, _)
Gcd(a, b) == IF b = 0 THEN a ELSE Gcd(b, a % b)

Rat(n, d) ==
    LET g == Gcd(Abs(n), d)
    IN  <<n \div g, d \div g>>

NaN == <<1, 0>>

IsNaN(x) == x[2] = 0

\* x == 0 in numpy: false for NaN
IsZero(x) == x[1] = 0

\* what interpolate takes as a sample after replace(0, np.nan): not a NaN
notna(x) == ~IsZero(x) /\ ~IsNaN(x)

\* numpy's cast of a float to an integer element: towards zero
trunc(x) ==
    IF x[1] >= 0 THEN <<x[1] \div x[2], 1>> ELSE <<-((-x[1]) \div x[2]), 1>>

\* what is stored when x is assigned into an array of element type dt (line 46)
store(x, dt) == IF dt = "int" THEN trunc(x) ELSE x

\* lines 47-48: the value pandas' linear interpolate gives position p of col,
\* the zeros of col having been made NaN beside the NaNs col already holds: on
\* the line through the nearest valid samples on both sides, the nearest valid
\* sample at either end of the axis, NaN when the channel has no valid sample
interpolate(col, p) ==
    LET before == {q \in 1..(p - 1) : notna(col[q])}
        after == {q \in (p + 1)..Len(col) : notna(col[q])}
        lo == CHOOSE q \in before : \A r \in before : r <= q
        hi == CHOOSE q \in after : \A r \in after : q <= r
    IN  IF notna(col[p]) THEN col[p]
        ELSE IF before = {} /\ after = {} THEN NaN
        ELSE IF before = {} THEN col[hi]
        ELSE IF after = {} THEN col[lo]
        ELSE Rat(col[lo][1] * col[hi][2] * (hi - p) + col[hi][1] * col[lo][2] * (p - lo),
                 col[lo][2] * col[hi][2] * (hi - lo))

\* line 44: np.any(col != 0)
any_nonzero(col) == \E q \in 1..Len(col) : ~IsZero(col[q])

\* lines 43-50 for one channel
fill_column(col, dt) ==
    IF any_nonzero(col)
    THEN Array([p \in 1..Len(col) |-> store(interpolate(col, p), dt)])
    ELSE col

column(d, i) == Array([t \in 1..Len(d) |-> d[t][i]])

\* lines 39-51
fill_zero_gaps(d, dt) ==
    LET cols == Array([i \in 1..Len(d[1]) |-> fill_column(column(d, i), dt)])
    IN  Array([t \in 1..Len(d) |-> Array([i \in 1..Len(d[1]) |-> cols[i][t]])])

(***************************************************************************)
(* Inputs                                                                  *)
(***************************************************************************)
FileStates == {"ok", "missing", "unloadable"}

\* the timestamp axes read for a spectrogram of T time samples: ticks 0, 1, ...
\* one per sample, or one sample short or long

Shapes(c) == {sh \in (1..c) \X (0..c) : sh[1] * sh[2] <= c}

Spectrograms(c) == UNION {[1..sh[1] -> [1..sh[2] -> Vals]] : sh \in Shapes(c)}

TimeAxes(T) == {[i \in 1..n |-> i - 1] : n \in {k \in {T - 1, T, T + 1} : k >= 0}}

FillVals == {-4, -3, 0, 1, 3}

FillShapes == {sh \in (1..MaxFillCells) \X (1..MaxFillCells) : sh[1] * sh[2] <= MaxFillCells}

\* the samples a matrix of element type dt can hold
Samples(dt) == {<<v, 1>> : v \in FillVals} \cup (IF dt = "float" THEN {NaN} ELSE {})

Matrices(dt) ==
    UNION {[1..sh[1] -> [1..sh[2] -> Samples(dt)]] : sh \in FillShapes}

NoWindows ==
    /\ figure = ""
    /\ outlier_mask = <<>>
    /\ flux_time = <<>>
    /\ rolling_mean = <<>>
    /\ mask = <<>>
    /\ windows = <<>>
    /\ padded_windows = <<>>

NoSelection ==
    /\ burst_idx = 0
    /\ confirmed = <<>>
    /\ clicks = <<>>
    /\ shown = FALSE
    /\ save_idx = 0
    /\ attempts = <<>>
    /\ writes = <<>>
    /\ files = <<>>

NoFill ==
    /\ data = <<>>
    /\ dtype = "float"
    /\ filled = <<>>
    /\ filled2 = <<>>

NoRun ==
    /\ npy_file = "unread"
    /\ npz_file = "unread"
    /\ spec = <<>>
    /\ times = <<>>
    /\ times_bound = FALSE
    /\ spec_bound = FALSE
    /\ meta_bound = FALSE
    /\ bin_factor = 1
    /\ stages = {}
    /\ err = ""

\* python locate_bursts.py <file_prefix>
Init ==
    /\ pc = "load_npy"
    /\ npy_file = "unread"
    /\ npz_file = "unread"
    /\ spec \in Spectrograms(MaxRunCells)
    /\ times = <<>>
    /\ times_bound = FALSE
    /\ spec_bound = FALSE
    /\ meta_bound = FALSE
    /\ bin_factor \in 1..MaxBinFactor
    /\ stages = {}
    /\ err = ""
    /\ NoWindows
    /\ NoSelection
    /\ NoFill

\* get_windows(spec) called on a loaded spectrogram
InitWin ==
    /\ pc = "get_windows"
    /\ npy_file = "ok"
    /\ npz_file = "ok"
    /\ spec \in Spectrograms(MaxCells)
    /\ times = <<>>
    /\ times_bound = FALSE
    /\ spec_bound = TRUE
    /\ meta_bound = TRUE
    /\ bin_factor \in 1..MaxBinFactor
    /\ stages = {}
    /\ err = ""
    /\ NoWindows
    /\ NoSelection
    /\ NoFill

(***************************************************************************)
(* __main__, lines 188-227                                                 *)
(***************************************************************************)
Raise(e) ==
    /\ pc' = "error"
    /\ err' = e

\* lines 198-206
LoadNpy ==
    /\ pc = "load_npy"
    /\ pc' = "load_npz"
    /\ npy_file' \in FileStates
    /\ spec_bound' = (npy_file' = "ok")
    /\ UNCHANGED <<npz_file, spec, times, times_bound, meta_bound, bin_factor, stages, err>>
    /\ UNCHANGED <<winVars, selVars, fillVars>>

\* lines 208-216
LoadNpz ==
    /\ pc = "load_npz"
    /\ pc' = "get_windows"
    /\ npz_file' \in FileStates
    /\ meta_bound' = (npz_file' = "ok")
    /\ UNCHANGED <<npy_file, spec, times, times_bound, spec_bound, bin_factor, stages, err>>
    /\ UNCHANGED <<winVars, selVars, fillVars>>

\* line 218 with spec unbound
GetWindowsUnbound ==
    /\ pc = "get_windows"
    /\ ~spec_bound
    /\ Raise("NameError")
    /\ UNCHANGED <<npy_file, npz_file, spec, times, times_bound, spec_bound, meta_bound, bin_factor, stages>>
    /\ UNCHANGED <<winVars, selVars, fillVars>>

\* line 218, get_windows lines 140-142: the spectrogram is shown and
\* plt.show() blocks until the figure is closed
ShowOriginal ==
    /\ pc = "get_windows"
    /\ spec_bound
    /\ figure = ""
    /\ figure' = "Original Spectrogram"
    /\ UNCHANGED <<outlier_mask, flux_time, rolling_mean, mask, windows, padded_windows>>
    /\ UNCHANGED <<runVars, selVars, fillVars>>

\* lines 143-149: the figure is closed, the outliers are masked and shown
ShowProcessed ==
    /\ pc = "get_windows"
    /\ figure = "Original Spectrogram"
    /\ outlier_mask' \in apply_robust_clip(bin_spectrogram(spec, bin_factor))
    /\ stages' = {"outlier_masker"}
    /\ figure' = "Processed Spectrogram"
    /\ UNCHANGED <<flux_time, rolling_mean, mask, windows, padded_windows>>
    /\ UNCHANGED <<pc, npy_file, npz_file, spec, times, times_bound, spec_bound, meta_bound, bin_factor, err>>
    /\ UNCHANGED <<selVars, fillVars>>

\* lines 153-161: the figure is closed, the flux is collapsed, smoothed and
\* shown; np.convolve (line 156) raises on an empty flux, with no figure shown
ShowFlux ==
    /\ pc = "get_windows"
    /\ figure = "Processed Spectrogram"
    /\ stages' = {"outlier_masker", "flux_collapser", "smoother"}
    /\ LET flux == gw_flux(spec, bin_factor, outlier_mask)
       IN  /\ flux_time' = flux
           /\ IF Len(flux) = 0
              THEN /\ Raise("ValueError")
                   /\ figure' = ""
                   /\ UNCHANGED rolling_mean
              ELSE /\ rolling_mean' = gw_rolling(flux)
                   /\ figure' = "Flux over time with rolling mean"
                   /\ UNCHANGED <<pc, err>>
    /\ UNCHANGED <<outlier_mask, mask, windows, padded_windows>>
    /\ UNCHANGED <<npy_file, npz_file, spec, times, times_bound, spec_bound, meta_bound, bin_factor>>
    /\ UNCHANGED <<selVars, fillVars>>

\* lines 164-186: the figure is closed, the edges are found, the windows are
\* built and get_windows returns
GetWindows ==
    /\ pc = "get_windows"
    /\ figure = "Flux over time with rolling mean"
    /\ \E m \in threshold_masks(rolling_mean) :
        LET w == gw_windows(m)
        IN  /\ mask' = m
            /\ windows' = w
            /\ padded_windows' = pad_windows(w, bin_factor, n_time(spec))
    /\ pc' = "select"
    /\ figure' = ""
    /\ stages' = Stages_get_windows
    /\ UNCHANGED <<outlier_mask, flux_time, rolling_mean>>
    /\ UNCHANGED <<npy_file, npz_file, spec, times, times_bound, spec_bound, meta_bound, bin_factor, err>>
    /\ UNCHANGED <<selVars, fillVars>>

\* lines 221-227 with meta unbound: the call's arguments are evaluated first
SelectUnbound ==
    /\ pc = "select"
    /\ ~meta_bound
    /\ Raise("NameError")
    /\ UNCHANGED <<npy_file, npz_file, spec, times, times_bound, spec_bound, meta_bound, bin_factor, stages>>
    /\ UNCHANGED <<winVars, selVars, fillVars>>

(***************************************************************************)
(* select_and_save_bursts, lines 40-127                                    *)
(***************************************************************************)
Zeros(n) == Array([i \in 1..n |-> 0])

\* lines 51-65: confirmed = [False] * n_bursts, then n_bursts / ncols with
\* ncols = min(4, n_bursts)
SelectBegin ==
    /\ pc = "select"
    /\ meta_bound
    /\ times' \in TimeAxes(n_time(spec))
    /\ times_bound' = TRUE
    /\ confirmed' = Array([i \in 1..n_bursts |-> FALSE])
    /\ clicks' = Zeros(n_bursts)
    /\ attempts' = Zeros(n_bursts)
    /\ writes' = Zeros(n_bursts)
    /\ burst_idx' = 0
    /\ IF Min2(4, n_bursts) = 0
       THEN Raise("ZeroDivisionError")
       ELSE pc' = "plot" /\ err' = ""
    /\ UNCHANGED <<npy_file, npz_file, spec, spec_bound, meta_bound, bin_factor, stages>>
    /\ UNCHANGED <<shown, save_idx, files>>
    /\ UNCHANGED <<winVars, fillVars>>

\* lines 69-97, one iteration: times[start] and times[end] are read (lines 77-78)
PlotBurst ==
    /\ pc = "plot"
    /\ burst_idx < n_bursts
    /\ LET start == padded_windows[burst_idx + 1][1]
           end == padded_windows[burst_idx + 1][2]
       IN  IF index_ok(start, Len(times)) /\ index_ok(end, Len(times))
           THEN /\ burst_idx' = burst_idx + 1
                /\ UNCHANGED <<pc, err>>
           ELSE /\ Raise("IndexError")
                /\ UNCHANGED burst_idx
    /\ UNCHANGED <<npy_file, npz_file, spec, times, times_bound, spec_bound, meta_bound, bin_factor, stages>>
    /\ UNCHANGED <<confirmed, clicks, shown, save_idx, attempts, writes, files>>
    /\ UNCHANGED <<winVars, fillVars>>

\* lines 99-111: the check boxes are built and plt.show() blocks
ShowFigure ==
    /\ pc = "plot"
    /\ burst_idx = n_bursts
    /\ pc' = "show"
    /\ stages' = stages \cup {"confirmation"}
    /\ UNCHANGED <<npy_file, npz_file, spec, times, times_bound, spec_bound, meta_bound, bin_factor, err>>
    /\ UNCHANGED <<winVars, selVars, fillVars>>

\* lines 104-106: a click on check box idx while the figure is shown
toggle(idx) ==
    /\ pc = "show"
    /\ clicks[idx + 1] < MaxClicks
    /\ confirmed' = [confirmed EXCEPT ![idx + 1] = ~confirmed[idx + 1]]
    /\ clicks' = [clicks EXCEPT ![idx + 1] = @ + 1]
    /\ UNCHANGED <<runVars, winVars, fillVars>>
    /\ UNCHANGED <<burst_idx, shown, save_idx, attempts, writes, files>>

\* line 111: the figure is closed and plt.show() returns
CloseFigure ==
    /\ pc = "show"
    /\ pc' = "save"
    /\ shown' = TRUE
    /\ save_idx' = 0
    /\ UNCHANGED <<npy_file, npz_file, spec, times, times_bound, spec_bound, meta_bound, bin_factor, stages, err>>
    /\ UNCHANGED <<burst_idx, confirmed, clicks, attempts, writes, files>>
    /\ UNCHANGED <<winVars, fillVars>>

\* lines 113-114, one iteration of the save loop over a window that is not selected
SkipBurst ==
    /\ pc = "save"
    /\ save_idx < n_bursts
    /\ ~confirmed[save_idx + 1]
    /\ save_idx' = save_idx + 1
    /\ UNCHANGED <<runVars, winVars, fillVars>>
    /\ UNCHANGED <<burst_idx, confirmed, clicks, shown, attempts, writes, files>>

\* where the save loop goes after it has saved window save_idx
after_save(i) == i + 1

\* lines 113-125, one iteration over a selected window, np.save succeeding
SaveBurst ==
    /\ pc = "save"
    /\ save_idx < n_bursts
    /\ confirmed[save_idx + 1]
    /\ LET start == padded_windows[save_idx + 1][1]
           end == padded_windows[save_idx + 1][2]
       IN  IF index_ok(start, Len(times))
           THEN /\ files' = np_save(files, save_name(times, start), slice(spec, start, end))
                /\ attempts' = [attempts EXCEPT ![save_idx + 1] = @ + 1]
                /\ writes' = [writes EXCEPT ![save_idx + 1] = @ + 1]
                /\ save_idx' = after_save(save_idx)
                /\ stages' = stages \cup {"persistence"}
                /\ UNCHANGED <<pc, err>>
           ELSE /\ Raise("IndexError")
                /\ UNCHANGED <<files, attempts, writes, save_idx, stages>>
    /\ UNCHANGED <<npy_file, npz_file, spec, times, times_bound, spec_bound, meta_bound, bin_factor>>
    /\ UNCHANGED <<burst_idx, confirmed, clicks, shown>>
    /\ UNCHANGED <<winVars, fillVars>>

\* lines 113-124, one iteration over a selected window, np.save raising OSError:
\* nothing catches it, the loop and the run end
SaveFails ==
    /\ pc = "save"
    /\ save_idx < n_bursts
    /\ confirmed[save_idx + 1]
    /\ index_ok(padded_windows[save_idx + 1][1], Len(times))
    /\ attempts' = [attempts EXCEPT ![save_idx + 1] = @ + 1]
    /\ files' \in np_save_failed(files, save_name(times, padded_windows[save_idx + 1][1]))
    /\ stages' = stages \cup {"persistence"}
    /\ Raise("OSError")
    /\ UNCHANGED <<npy_file, npz_file, spec, times, times_bound, spec_bound, meta_bound, bin_factor>>
    /\ UNCHANGED <<burst_idx, confirmed, clicks, shown, save_idx, writes>>
    /\ UNCHANGED <<winVars, fillVars>>

\* line 127
Finish ==
    /\ pc = "save"
    /\ save_idx = n_bursts
    /\ pc' = "done"
    /\ UNCHANGED <<npy_file, npz_file, spec, times, times_bound, spec_bound, meta_bound, bin_factor, stages, err>>
    /\ UNCHANGED <<winVars, selVars, fillVars>>

Next ==
    \/ LoadNpy
    \/ LoadNpz
    \/ GetWindowsUnbound
    \/ ShowOriginal
    \/ ShowProcessed
    \/ ShowFlux
    \/ GetWindows
    \/ SelectUnbound
    \/ SelectBegin
    \/ PlotBurst
    \/ ShowFigure
    \/ \E idx \in 0..(n_bursts - 1) : toggle(idx)
    \/ CloseFigure
    \/ SkipBurst
    \/ SaveBurst
    \/ SaveFails
    \/ Finish

Spec == Init /\ [][Next]_vars

(***************************************************************************)
(* fill_zero_gaps applied to a matrix, and again to its result             *)
(***************************************************************************)
InitFill ==
    /\ pc = "fill"
    /\ dtype \in {"int", "float"}
    /\ data \in Matrices(dtype)
    /\ filled = <<>>
    /\ filled2 = <<>>
    /\ NoRun
    /\ NoWindows
    /\ NoSelection

Fill ==
    /\ pc = "fill"
    /\ pc' = "fill_again"
    /\ filled' = fill_zero_gaps(data, dtype)
    /\ UNCHANGED <<data, dtype, filled2>>
    /\ UNCHANGED <<npy_file, npz_file, spec, times, times_bound, spec_bound, meta_bound, bin_factor, stages, err>>
    /\ UNCHANGED <<winVars, selVars>>

FillAgain ==
    /\ pc = "fill_again"
    /\ pc' = "filled"
    /\ filled2' = fill_zero_gaps(filled, dtype)
    /\ UNCHANGED <<data, dtype, filled>>
    /\ UNCHANGED <<npy_file, npz_file, spec, times, times_bound, spec_bound, meta_bound, bin_factor, stages, err>>
    /\ UNCHANGED <<winVars, selVars>>

NextFill == Fill \/ FillAgain

SpecFill == InitFill /\ [][NextFill]_vars

NextWin == ShowOriginal \/ ShowProcessed \/ ShowFlux \/ GetWindows

SpecWin == InitWin /\ [][NextWin]_vars

(***************************************************************************)
(* Properties of get_windows, checked under SpecWin                        *)
(***************************************************************************)
raw_time_length == n_time(spec)

Returned == pc = "select"

InBounds(w, T) == (0 <= w[1]) /\ (w[1] < w[2]) /\ (w[2] <= T)

\* C1: every window (start, end) returned by get_windows satisfies
\* 0 <= start < end <= raw_time_length
C1_WindowsInBounds ==
    Returned =>
        \A k \in 1..Len(padded_windows) : InBounds(padded_windows[k], raw_time_length)

\* the maximal runs of TRUE of a mask, as half-open pairs of 0-based indices
MaximalRuns(m) ==
    {w \in (0..Len(m)) \X (0..Len(m)) :
        /\ w[1] < w[2]
        /\ \A i \in (w[1] + 1)..w[2] : m[i]
        /\ (w[1] = 0) \/ ~m[w[1]]
        /\ (w[2] = Len(m)) \/ ~m[w[2] + 1]}

ExampleSmoothed == <<0, 0, 5, 5, 5, 0, 0>>

\* C2: interval-mode edge detection returns exactly the maximal runs of TRUE of
\* the above-threshold mask as half-open pairs in ascending order: as many
\* starts as ends, start < end in every pair, end_i < start_{i+1}, a run at
\* index 0 starts at 0 and a run reaching the last index ends at the length;
\* [0,0,5,5,5,0,0] with threshold 1 gives exactly [(2,5)]
C2_IntervalEdges ==
    /\ Returned =>
        /\ Len(edge_starts(mask)) = Len(edge_ends(mask))
        /\ Len(windows) = Cardinality(MaximalRuns(mask))
        /\ {windows[k] : k \in 1..Len(windows)} = MaximalRuns(mask)
        /\ \A k \in 1..Len(windows) : windows[k][1] < windows[k][2]
        /\ \A k \in 1..(Len(windows) - 1) : windows[k][2] < windows[k + 1][1]
    /\ gw_windows([i \in 1..Len(ExampleSmoothed) |-> ExampleSmoothed[i] > 1]) = << <<2, 5>> >>

\* two runs, one beginning at index 0 and one reaching the last index
C2_Witness ==
    /\ Returned
    /\ Len(windows) >= 2
    /\ windows[1][1] = 0
    /\ windows[Len(windows)][2] = Len(mask)

\* C3: the smoothed sequence has the length of the flux sequence, so that
\* every edge index lies in [0, n], n the flux length
C3_SameLength ==
    Returned =>
        /\ Len(rolling_mean) = Len(flux_time)
        /\ \A k \in 1..Len(windows) :
            /\ windows[k][1] \in 0..Len(flux_time)
            /\ windows[k][2] \in 0..Len(flux_time)

ZeroVariance(r) == \A i, j \in 1..Len(r) : r[i] = r[j]

\* n^2 times the variance of r
variance_num(r) ==
    Len(r) * SeqSum([i \in 1..Len(r) |-> r[i] * r[i]]) - SeqSum(r) * SeqSum(r)

\* C8: when the smoothed flux has zero variance the threshold is the mean
\* (std = 0), no sample is above it and get_windows returns an empty list
\* without an error
C8_ZeroVariance ==
    (pc \in {"select", "error"} /\ Len(rolling_mean) > 0 /\ ZeroVariance(rolling_mean)) =>
        /\ variance_num(rolling_mean) = 0
        /\ \A i \in 1..Len(mask) : ~mask[i]
        /\ padded_windows = <<>>
        /\ err = ""
        /\ Returned

\* an all-zero masked spectrogram at least as long as the smoothing window
C8_Witness ==
    /\ Returned
    /\ Len(flux_time) >= WINDOW_SIZE
    /\ ZeroVariance(rolling_mean)
    /\ rolling_mean[1] = 0

(***************************************************************************)
(* Properties of a run of locate_bursts.py, checked under Spec             *)
(***************************************************************************)
Ended == pc \in {"done", "error"}

InvalidInput ==
    \/ npy_file \in {"missing", "unloadable"}
    \/ npz_file \in {"missing", "unloadable"}
    \/ raw_time_length = 0
    \/ times_bound /\ Len(times) # raw_time_length

\* select_and_save_bursts is running on valid input: both files loaded, one
\* timestamp per time sample, and a recording at least as long as the
\* smoothing window
ValidRun ==
    /\ times_bound
    /\ ~InvalidInput
    /\ Len(flux_time) >= WINDOW_SIZE

\* C4: no slice is written before the decisions have been collected, a window
\* whose decision is false is never written, and each window whose decision is
\* true is written exactly once (one np.save call is made for it)
C4_Lifecycle ==
    ValidRun =>
        /\ (\E i \in DOMAIN attempts : attempts[i] > 0) => shown
        /\ shown => \A i \in DOMAIN confirmed : ~confirmed[i] => attempts[i] = 0
        /\ \A i \in DOMAIN attempts : attempts[i] <= 1
        /\ (Ended /\ shown) => \A i \in DOMAIN confirmed : confirmed[i] => attempts[i] = 1

\* C5: after the save loop the stored content of each confirmed window is its
\* own slice spec[:, start:end]
C5_Independent ==
    (ValidRun /\ pc = "done") =>
        \A i \in DOMAIN confirmed :
            confirmed[i] =>
                LET start == padded_windows[i][1]
                    end == padded_windows[i][2]
                    name == save_name(times, start)
                IN  /\ name \in DOMAIN files
                    /\ files[name] = slice(spec, start, end)

\* C6: when writing a confirmed window fails with an I/O error, a write of
\* every later confirmed window is still attempted
C6_FailureSkipped ==
    (ValidRun /\ Ended /\ \E i \in DOMAIN attempts : attempts[i] > writes[i]) =>
        \A j \in DOMAIN confirmed : confirmed[j] => attempts[j] > 0

Clamped(w, T) == InBounds(w, T) /\ (w[1] = 0 \/ w[2] = T)

\* C7: a window clamped to start = 0 or to end = raw_time_length = len(times)
\* is presented and, if confirmed, persisted without an exception
C7_ClampNeverErrors ==
    \A k \in 1..Len(padded_windows) :
        (ValidRun /\ Clamped(padded_windows[k], raw_time_length)) =>
            ~(pc = "error" /\ err = "IndexError" /\ k \in {burst_idx + 1, save_idx + 1})

\* C9: on invalid input (zero time samples, a timestamp axis of another length
\* than the time axis, a missing or unloadable file) no stage is entered and
\* nothing is persisted
C9_RejectedBeforeProcessing ==
    InvalidInput => (stages = {} /\ DOMAIN files = {})

\* the decision list has one boolean per candidate, true exactly for the
\* check boxes toggled an odd number of times
DecisionList ==
    /\ Len(confirmed) = n_bursts
    /\ \A i \in 1..n_bursts : confirmed[i] <=> (clicks[i] % 2 = 1)

\* the total line 127 reports
total_confirmed == Cardinality({i \in DOMAIN confirmed : confirmed[i]})

\* C12: for a candidate list of any length n >= 0 select_and_save_bursts keeps
\* a decision list of exactly n booleans, all false at first and decision i
\* true iff box i was toggled an odd number of times; with zero candidates it
\* completes without an error, persists nothing and reports zero confirmed.
C12_DecisionList ==
    ValidRun =>
        /\ DecisionList
        /\ n_bursts = 0 =>
              /\ pc # "error"
              /\ DOMAIN files = {}
              /\ total_confirmed = 0

(***************************************************************************)
(* Properties of fill_zero_gaps, checked under SpecFill                    *)
(***************************************************************************)
\* C10: fill_zero_gaps is idempotent: filling the filled matrix again gives the
\* filled matrix
C10_Idempotent ==
    pc = "filled" => filled2 = filled

\* the frame of one call: out has the shape of d, every channel of d that is
\* entirely zero is the same in out, and every non-zero sample of d has its
\* value at its position in out
SameShape(d, out) ==
    /\ Len(out) = Len(d)
    /\ \A t \in 1..Len(d) : Len(out[t]) = Len(d[t])

ZeroChannelsKept(d, out) ==
    \A i \in 1..Len(d[1]) :
        (\A t \in 1..Len(d) : IsZero(d[t][i])) => (\A t \in 1..Len(d) : out[t][i] = d[t][i])

NonZeroSamplesKept(d, out) ==
    \A t \in 1..Len(d) : \A i \in 1..Len(d[1]) :
        ~IsZero(d[t][i]) => out[t][i] = d[t][i]

\* C11: a call of fill_zero_gaps leaves the caller's matrix as it was and
\* returns a matrix of the same shape in which every all-zero channel is
\* identical to the input's and every non-zero input sample keeps its value
\* and position: only zero samples of channels with a non-zero sample change.
C11_FrameEffect ==
    [][pc = "fill" =>
          /\ data' = data
          /\ SameShape(data, filled')
          /\ ZeroChannelsKept(data, filled')
          /\ NonZeroSamplesKept(data, filled')]_vars

====
